---- MODULE Spec2Model ----
(***************************************************************************)
(* Adapter factory (BlockchainServiceFactory) and the multi-network        *)
(* balance aggregation (BlockchainController.getMultiNetworkBalance) of    *)
(* the crypto-network service.                                             *)
(*                                                                         *)
(* Request handlers are async functions on one event loop: a handler runs  *)
(* without interruption up to an await on real I/O, and other handlers run *)
(* while it is suspended.  Each action below is one such uninterrupted     *)
(* run.  An adapter object is identified by the number it received when it *)
(* was constructed (object identity).                                      *)
(***************************************************************************)
EXTENDS Integers, Sequences, FiniteSets, TLC

\* ---------------------------------------------------------------- bounds
NumNetworks == 2      \* how many members of NetworkType, in enum order
NumClients == 2       \* request handlers that may be in flight together
MaxFanOuts == 1       \* getMultiNetworkBalance handlers in flight together
MaxBalance == 2       \* balances reported by getWalletInfo: 1..MaxBalance
NumMnemonics == 1     \* distinct valid mnemonics a caller may pass to createWallet
MaxIndex == 0         \* derivation indexes a caller may pass: 0..MaxIndex
NumEntropy == 2       \* distinct values the random generator may yield in one call
ServingInstances == 1 \* adapter objects constructed after a startup warm-up

\* ------------------------------------------------------- static registry
\* Object.values(NetworkType), in declaration order
AllNetworkTypes ==
    <<"arbitrum", "ton", "solana", "ripple", "polygon", "avalanche", "cardano", "trc20">>

NetworkOrder == SubSeq(AllNetworkTypes, 1, NumNetworks)

NetworkType == {NetworkOrder[k] : k \in 1..Len(NetworkOrder)}

Clients == 1..NumClients

Balances == 1..MaxBalance

\* the NETWORK_CONFIGS as shipped: only trc20 has enable: true
NETWORK_CONFIGS == [n \in NetworkType |-> n = "trc20"]

VARIABLES
    enable,      \* NETWORK_CONFIGS[n].enable, fixed at process start
    services,    \* BlockchainServiceFactory.services: network -> instance, 0 = no entry
    nextId,      \* number of adapter objects constructed so far
    initCount,   \* network -> number of initialize() invocations (spy count)
    initOk,      \* instances whose initialize() completed without throwing
    op,          \* client -> handler it is running
    pc,          \* client -> where the handler is suspended
    net,         \* client -> network of the createService call in flight
    inst,        \* client -> instance constructed by the createService call in flight
    idx,         \* client -> position of getAllServices in Object.values(NetworkType)
    acc,         \* client -> the local array `services` of getAllServices
    failed,      \* client -> networks whose createService threw in this getAllServices
    addr,        \* client -> the request's address, as the set of networks whose format
                 \*   check accepts it
    balances,    \* client -> the Promise.allSettled array of the fan-out
    outcome,     \* client -> per adapter, what validateAddress / getWalletInfo did
    lastRet,     \* client -> its latest createService call: the network and the instance
                 \*   returned, 0 before the first call, -1 when the call threw
    repeated,    \* TRUE once a createService call returned to its caller the instance
                 \*   that caller's previous call, for the same network, returned
    allResult,   \* the value a getAllServices call returned in the latest step, and to whom
    response,    \* the response getMultiNetworkBalance sent in the latest step, the
                 \*   adapters it had queried and the array Promise.allSettled gave it
    env,         \* process.env: whether a signing key and whether a wallet seed is configured
    listed,      \* what the latest getAvailableNetworks() call returned, <<>> before the first
    subject,     \* the adapter class whose methods are exercised directly
    wallets,     \* the latest createWallet calls on the subject, at most two, oldest first
    last,        \* the latest call of another method on the subject, and what it did
    handling,    \* client -> a single-network handler awaits createService or resumes
    server,      \* the process: "warming" in startServer, "listening", or "exited"
    details,     \* the networkDetails promises of the getSupportedNetworks handler in
                 \*   flight, in the order of getAvailableNetworks(); <<>> when none is
    booted       \* TRUE once startServer has run its warm-up in this behaviour

\* adapter objects constructed in one behaviour: as many as there are networks, and
\* ServingInstances more when the warm-up has constructed one per network
MaxInstances == NumNetworks + (IF booted THEN ServingInstances ELSE 0)

factoryVars == <<services, nextId, initCount, initOk>>
callVars == <<op, pc, net, inst>>
loopVars == <<idx, acc, failed>>
aggVars == <<addr, balances, outcome>>
histVars == <<lastRet, repeated>>
extVars == <<env, listed, subject, wallets, last, handling, server, details, booted>>
vars == <<enable, services, nextId, initCount, initOk, op, pc, net, inst, idx, acc,
          failed, addr, balances, outcome, lastRet, repeated, allResult, response,
          env, listed, subject, wallets, last, handling, server, details, booted>>

NoResult == [client |-> 0, status |-> "none", services |-> <<>>, failed |-> {}]
NoResponse == [client |-> 0, status |-> 0]
Pending == [status |-> "pending"]
NoCall == [op |-> "none"]
\* no environment variable is set
NoEnv == [key |-> FALSE, seed |-> FALSE]

Init ==
    /\ enable \in [NetworkType -> BOOLEAN]
    /\ services = [n \in NetworkType |-> 0]
    /\ nextId = 0
    /\ initCount = [n \in NetworkType |-> 0]
    /\ initOk = {}
    /\ op = [c \in Clients |-> "none"]
    /\ pc = [c \in Clients |-> "idle"]
    /\ net = [c \in Clients |-> NetworkOrder[1]]
    /\ inst = [c \in Clients |-> 0]
    /\ idx = [c \in Clients |-> 0]
    /\ acc = [c \in Clients |-> <<>>]
    /\ failed = [c \in Clients |-> {}]
    /\ addr = [c \in Clients |-> {}]
    /\ balances = [c \in Clients |-> <<>>]
    /\ outcome = [c \in Clients |-> <<>>]
    /\ lastRet = [c \in Clients |-> [network |-> NetworkOrder[1], instance |-> 0]]
    /\ repeated = FALSE
    /\ allResult = NoResult
    /\ response = NoResponse
    /\ env = NoEnv
    /\ listed = <<>>
    /\ subject = NetworkOrder[1]
    /\ wallets = <<>>
    /\ last = NoCall
    /\ handling = [c \in Clients |-> FALSE]
    /\ server = "listening"
    /\ details = <<>>
    /\ booted = FALSE

\* ------------------------------------------------------------- factory
\* a step in which no getAllServices call returns and no response is sent
NoOutput ==
    /\ allResult' = NoResult
    /\ response' = NoResponse

\* a handler that is not running getAllServices holds no local array
ResetLoop(c) ==
    /\ idx' = [idx EXCEPT ![c] = 0]
    /\ acc' = [acc EXCEPT ![c] = <<>>]
    /\ failed' = [failed EXCEPT ![c] = {}]

\* no handler is running for client c
Idle(c) == pc[c] = "idle"


\* the caller of createService(n) resumes with instance i
\* (o = "createService": a single-network handler; otherwise the loop of getAllServices)
Deliver(c, n, i, o) ==
    /\ net' = [net EXCEPT ![c] = NetworkOrder[1]]
    /\ inst' = [inst EXCEPT ![c] = 0]
    /\ lastRet' = [lastRet EXCEPT ![c] = [network |-> n, instance |-> i]]
    /\ repeated' = (repeated \/ lastRet[c] = [network |-> n, instance |-> i])
    /\ allResult' = NoResult
    /\ IF o = "createService"
       THEN /\ op' = [op EXCEPT ![c] = "none"]
            /\ pc' = [pc EXCEPT ![c] = "idle"]
            /\ UNCHANGED loopVars
       ELSE /\ op' = [op EXCEPT ![c] = o]
            /\ pc' = [pc EXCEPT ![c] = "loop"]
            /\ acc' = [acc EXCEPT ![c] = Append(@, [network |-> n, id |-> i])]
            /\ idx' = [idx EXCEPT ![c] = @ + 1]
            /\ UNCHANGED failed

\* faulty variant: getAllServices has no try/catch, the error ends the whole call
Raise_NoCatch(c, n, o) ==
    /\ net' = [net EXCEPT ![c] = NetworkOrder[1]]
    /\ inst' = [inst EXCEPT ![c] = 0]
    /\ lastRet' = [lastRet EXCEPT ![c] = [network |-> n, instance |-> -1]]
    /\ UNCHANGED repeated
    /\ op' = [op EXCEPT ![c] = "none"]
    /\ pc' = [pc EXCEPT ![c] = "idle"]
    /\ IF o = "createService"
       THEN /\ UNCHANGED loopVars
            /\ allResult' = NoResult
       ELSE /\ ResetLoop(c)
            /\ allResult' = [client |-> c, status |-> "threw", services |-> <<>>,
                              failed |-> failed[c] \cup {n}]

\* the caller of createService(n) resumes with the error initialize() threw
Raise(c, n, o) ==
    /\ net' = [net EXCEPT ![c] = NetworkOrder[1]]
    /\ inst' = [inst EXCEPT ![c] = 0]
    /\ lastRet' = [lastRet EXCEPT ![c] = [network |-> n, instance |-> -1]]
    /\ UNCHANGED repeated
    /\ allResult' = NoResult
    /\ IF o = "createService"
       THEN /\ op' = [op EXCEPT ![c] = "none"]
            /\ pc' = [pc EXCEPT ![c] = "idle"]
            /\ UNCHANGED loopVars
       ELSE \* catch (error) { console.error(...) } of getAllServices
            /\ op' = [op EXCEPT ![c] = o]
            /\ pc' = [pc EXCEPT ![c] = "loop"]
            /\ failed' = [failed EXCEPT ![c] = @ \cup {n}]
            /\ idx' = [idx EXCEPT ![c] = @ + 1]
            /\ UNCHANGED acc

\* faulty variant: one lock for the whole factory, no adapter is constructed while
\* another one is in initialize()
createService_GlobalLock(c, n, o) ==
    IF services[n] # 0
    THEN /\ UNCHANGED factoryVars
         /\ Deliver(c, n, services[n], o)
    ELSE /\ \A d \in Clients : pc[d] # "initialize"
         /\ nextId < MaxInstances
         /\ nextId' = nextId + 1
         /\ IF enable[n]
            THEN /\ initCount' = [initCount EXCEPT ![n] = @ + 1]
                 /\ op' = [op EXCEPT ![c] = o]
                 /\ pc' = [pc EXCEPT ![c] = "initialize"]
                 /\ net' = [net EXCEPT ![c] = n]
                 /\ inst' = [inst EXCEPT ![c] = nextId + 1]
                 /\ allResult' = NoResult
                 /\ UNCHANGED <<services, initOk, loopVars, histVars>>
            ELSE /\ UNCHANGED <<services, initCount, initOk>>
                 /\ Deliver(c, n, nextId + 1, o)

\* faulty variant: the cache lookup is skipped, every call constructs
createService_NoCacheHit(c, n, o) ==
    /\ nextId < MaxInstances
    /\ nextId' = nextId + 1
    /\ IF enable[n]
       THEN /\ initCount' = [initCount EXCEPT ![n] = @ + 1]
            /\ op' = [op EXCEPT ![c] = o]
            /\ pc' = [pc EXCEPT ![c] = "initialize"]
            /\ net' = [net EXCEPT ![c] = n]
            /\ inst' = [inst EXCEPT ![c] = nextId + 1]
            /\ allResult' = NoResult
            /\ UNCHANGED <<services, initOk, loopVars, histVars>>
       ELSE /\ UNCHANGED <<services, initCount, initOk>>
            /\ Deliver(c, n, nextId + 1, o)

\* faulty variant: config.enable is not consulted, every new adapter is initialized
createService_AlwaysInitialize(c, n, o) ==
    IF services[n] # 0
    THEN /\ UNCHANGED factoryVars
         /\ Deliver(c, n, services[n], o)
    ELSE /\ nextId < MaxInstances
         /\ nextId' = nextId + 1
         /\ initCount' = [initCount EXCEPT ![n] = @ + 1]
         /\ op' = [op EXCEPT ![c] = o]
         /\ pc' = [pc EXCEPT ![c] = "initialize"]
         /\ net' = [net EXCEPT ![c] = n]
         /\ inst' = [inst EXCEPT ![c] = nextId + 1]
         /\ allResult' = NoResult
         /\ UNCHANGED <<services, initOk, loopVars, histVars>>

\* faulty variant: the adapter is put into the cache before initialize() is awaited
createService_CacheBeforeInitialize(c, n, o) ==
    IF services[n] # 0
    THEN /\ UNCHANGED factoryVars
         /\ Deliver(c, n, services[n], o)
    ELSE /\ nextId < MaxInstances
         /\ nextId' = nextId + 1
         /\ IF enable[n]
            THEN /\ initCount' = [initCount EXCEPT ![n] = @ + 1]
                 /\ services' = [services EXCEPT ![n] = nextId + 1]
                 /\ op' = [op EXCEPT ![c] = o]
                 /\ pc' = [pc EXCEPT ![c] = "initialize"]
                 /\ net' = [net EXCEPT ![c] = n]
                 /\ inst' = [inst EXCEPT ![c] = nextId + 1]
                 /\ allResult' = NoResult
                 /\ UNCHANGED <<initOk, loopVars, histVars>>
            ELSE /\ UNCHANGED <<services, initCount, initOk>>
                 /\ Deliver(c, n, nextId + 1, o)

\* createService(n) up to its first suspension
createService(c, n, o) ==
    IF n \notin NetworkType
    THEN \* default: throw new Error(`Unsupported network type: ${networkType}`)
         /\ UNCHANGED factoryVars
         /\ Raise(c, n, o)
    ELSE
    IF services[n] # 0
    THEN \* if (this.services.has(networkType)) return this.services.get(networkType)
         /\ UNCHANGED factoryVars
         /\ Deliver(c, n, services[n], o)
    ELSE /\ nextId < MaxInstances
         /\ nextId' = nextId + 1
         /\ IF enable[n]
            THEN \* await service.initialize()
                 /\ initCount' = [initCount EXCEPT ![n] = @ + 1]
                 /\ op' = [op EXCEPT ![c] = o]
                 /\ pc' = [pc EXCEPT ![c] = "initialize"]
                 /\ net' = [net EXCEPT ![c] = n]
                 /\ inst' = [inst EXCEPT ![c] = nextId + 1]
                 /\ allResult' = NoResult
                 /\ UNCHANGED <<services, initOk, loopVars, histVars>>
            ELSE \* return service: neither initialized nor cached
                 /\ UNCHANGED <<services, initCount, initOk>>
                 /\ Deliver(c, n, nextId + 1, o)

\* a single-network request handler calls createService(n)
CallCreateService(c, n) ==
    /\ Idle(c)
    /\ createService(c, n, "createService")
    /\ response' = NoResponse
    /\ UNCHANGED <<enable, extVars, aggVars>>

\* initialize() resolves: this.services.set(networkType, service); return service
InitializeOk(c) ==
    /\ pc[c] = "initialize"
    /\ initOk' = initOk \cup {inst[c]}
    /\ services' = [services EXCEPT ![net[c]] = inst[c]]
    /\ Deliver(c, net[c], inst[c], op[c])
    /\ response' = NoResponse
    /\ UNCHANGED <<enable, extVars, nextId, initCount, aggVars>>

\* faulty variant: a failed initialize() also deletes the network's cache entry
InitializeFail_Evicts(c) ==
    /\ pc[c] = "initialize"
    /\ services' = [services EXCEPT ![net[c]] = 0]
    /\ Raise(c, net[c], op[c])
    /\ response' = NoResponse
    /\ UNCHANGED <<enable, extVars, nextId, initCount, initOk, aggVars>>

\* initialize() rejects (handleError rethrows): createService rejects
InitializeFail(c) ==
    /\ pc[c] = "initialize"
    /\ Raise(c, net[c], op[c])
    /\ response' = NoResponse
    /\ UNCHANGED <<enable, extVars, factoryVars, aggVars>>

\* getAllServices(): const services = []
GetAllServices(c) ==
    /\ Idle(c)
    /\ op' = [op EXCEPT ![c] = "getAllServices"]
    /\ pc' = [pc EXCEPT ![c] = "loop"]
    /\ idx' = [idx EXCEPT ![c] = 1]
    /\ acc' = [acc EXCEPT ![c] = <<>>]
    /\ failed' = [failed EXCEPT ![c] = {}]
    /\ NoOutput
    /\ UNCHANGED <<enable, extVars, factoryVars, net, inst, aggVars, histVars>>

\* one iteration of for (const networkType of Object.values(NetworkType))
LoopStep(c) ==
    /\ pc[c] = "loop"
    /\ idx[c] <= Len(NetworkOrder)
    /\ createService(c, NetworkOrder[idx[c]], op[c])
    /\ response' = NoResponse
    /\ UNCHANGED <<enable, extVars, aggVars>>

\* return services
GetAllServicesReturn(c) ==
    /\ op[c] = "getAllServices"
    /\ pc[c] = "loop"
    /\ idx[c] > Len(NetworkOrder)
    /\ allResult' = [client |-> c, status |-> "returned", services |-> acc[c],
                      failed |-> failed[c]]
    /\ op' = [op EXCEPT ![c] = "none"]
    /\ pc' = [pc EXCEPT ![c] = "idle"]
    /\ ResetLoop(c)
    /\ response' = NoResponse
    /\ UNCHANGED <<enable, extVars, factoryVars, net, inst, aggVars, histVars>>

Next ==
    \/ \E c \in Clients, n \in NetworkType : CallCreateService(c, n)
    \/ \E c \in Clients : InitializeOk(c)
    \/ \E c \in Clients : InitializeFail(c)
    \/ \E c \in Clients : GetAllServices(c)
    \/ \E c \in Clients : LoopStep(c)
    \/ \E c \in Clients : GetAllServicesReturn(c)

Spec == Init /\ [][Next]_vars

\* faulty variant: only the networks with enable == true are listed
getAvailableNetworks_EnabledOnly == SelectSeq(NetworkOrder, LAMBDA n : enable[n])

\* BlockchainServiceFactory.getAvailableNetworks: return Object.values(NetworkType)
getAvailableNetworks == NetworkOrder

\* a caller evaluates BlockchainServiceFactory.getAvailableNetworks()
GetAvailableNetworks ==
    /\ listed' = getAvailableNetworks
    /\ UNCHANGED <<enable, factoryVars, callVars, loopVars, aggVars, histVars, allResult,
                   response, env, subject, wallets, last, handling, server, details, booted>>

NextList ==
    \/ \E c \in Clients, n \in NetworkType : CallCreateService(c, n)
    \/ \E c \in Clients : InitializeOk(c)
    \/ \E c \in Clients : InitializeFail(c)
    \/ GetAvailableNetworks

SpecList == Init /\ [][NextList]_vars

\* -------------------------------------------------------- chain adapters
\* service.validateAddress(address): every adapter wraps its check in try/catch and
\* never throws; TRC20Service reads this.tronWeb, which only initialize() sets
validateAddress(n, i, a) ==
    IF n = "trc20" /\ i \notin initOk THEN FALSE ELSE n \in a

Threw == [ok |-> FALSE, balance |-> 0]

\* the outcomes of await service.getWalletInfo(address) for an accepted address:
\* a wallet info with a balance, or a throw; an adapter that was never initialized has no
\* provider/client and handleError rethrows the resulting TypeError
getWalletInfo(i) ==
    IF i \in initOk
    THEN {[ok |-> TRUE, balance |-> b] : b \in Balances} \cup {Threw}
    ELSE {Threw}

\* --------------------------------------------------- aggregation engine
\* the three objects the async callback of services.map returns
SuccessEntry(n, a, b) ==
    [network |-> n, networkName |-> n, address |-> a, balance |-> b,
     nativeToken |-> n, status |-> "success"]

InvalidEntry(n) ==
    [network |-> n, networkName |-> n, status |-> "invalid_address",
     error |-> "Address format not supported on this network"]

\* faulty variant: the object of the catch branch names no network
ErrorEntry_NoNetwork(n) ==
    [status |-> "error", error |-> "message"]

ErrorEntry(n) ==
    [network |-> n, networkName |-> n, status |-> "error", error |-> "message"]

Fulfilled(v) == [status |-> "fulfilled", value |-> v]

\* faulty variant: the callback has no try/catch, a throw rejects its promise
OnWalletInfo_NoCatch(n, a, r) ==
    IF r.ok
    THEN Fulfilled(SuccessEntry(n, a, r.balance))
    ELSE [status |-> "rejected", reason |-> [message |-> "message"]]

\* how the callback ends once await service.getWalletInfo(address) has settled with r:
\* the object of the try branch, or the object of the catch branch
OnWalletInfo(n, a, r) ==
    IF r.ok THEN Fulfilled(SuccessEntry(n, a, r.balance)) ELSE Fulfilled(ErrorEntry(n))

\* getMultiNetworkBalance: const services = await BlockchainServiceFactory.getAllServices()
GetMultiNetworkBalance(c) ==
    /\ Idle(c)
    /\ Cardinality({d \in Clients : op[d] = "getMultiNetworkBalance"}) < MaxFanOuts
    /\ op' = [op EXCEPT ![c] = "getMultiNetworkBalance"]
    /\ pc' = [pc EXCEPT ![c] = "loop"]
    /\ idx' = [idx EXCEPT ![c] = 1]
    /\ acc' = [acc EXCEPT ![c] = <<>>]
    /\ failed' = [failed EXCEPT ![c] = {}]
    /\ NoOutput
    /\ UNCHANGED <<enable, extVars, factoryVars, net, inst, aggVars, histVars>>

\* faulty variant: the callback calls getWalletInfo without asking validateAddress
FanOut_NoValidation(c, a) ==
    /\ op[c] = "getMultiNetworkBalance"
    /\ pc[c] = "loop"
    /\ idx[c] > Len(NetworkOrder)
    /\ balances' = [balances EXCEPT ![c] = [k \in 1..Len(acc[c]) |-> Pending]]
    /\ outcome' = [outcome EXCEPT ![c] = [k \in 1..Len(acc[c]) |-> "pending"]]
    /\ pc' = [pc EXCEPT ![c] = "allSettled"]
    /\ allResult' = [client |-> c, status |-> "returned", services |-> acc[c],
                      failed |-> failed[c]]
    /\ addr' = [addr EXCEPT ![c] = a]
    /\ response' = NoResponse
    /\ UNCHANGED <<enable, extVars, factoryVars, op, net, inst, loopVars, histVars>>

\* services.map(async (service) => ...): every callback runs up to its first await;
\* one that does not accept the address returns at once.  The address of the request
\* (req.params.address) is read here for the first time, so it is drawn here
FanOut(c, a) ==
    /\ op[c] = "getMultiNetworkBalance"
    /\ pc[c] = "loop"
    /\ idx[c] > Len(NetworkOrder)
    /\ balances' = [balances EXCEPT ![c] =
          [k \in 1..Len(acc[c]) |->
              IF validateAddress(acc[c][k].network, acc[c][k].id, a)
              THEN Pending
              ELSE Fulfilled(InvalidEntry(acc[c][k].network))]]
    /\ outcome' = [outcome EXCEPT ![c] =
          [k \in 1..Len(acc[c]) |->
              IF validateAddress(acc[c][k].network, acc[c][k].id, a)
              THEN "pending" ELSE "invalid"]]
    /\ pc' = [pc EXCEPT ![c] = "allSettled"]
    /\ allResult' = [client |-> c, status |-> "returned", services |-> acc[c],
                      failed |-> failed[c]]
    /\ addr' = [addr EXCEPT ![c] = a]
    /\ response' = NoResponse
    /\ UNCHANGED <<enable, extVars, factoryVars, op, net, inst, loopVars, histVars>>

\* faulty variant: the callbacks are awaited one after the other, the k-th
\* getWalletInfo settles only when no earlier one is pending
Settle_InOrder(c, k) ==
    /\ pc[c] = "allSettled"
    /\ k \in 1..Len(balances[c])
    /\ balances[c][k].status = "pending"
    /\ \A j \in 1..(k - 1) : balances[c][j].status # "pending"
    /\ \E r \in getWalletInfo(acc[c][k].id) :
          /\ balances' = [balances EXCEPT ![c][k] = OnWalletInfo(acc[c][k].network, addr[c], r)]
          /\ outcome' = [outcome EXCEPT ![c][k] = IF r.ok THEN "ok" ELSE "throw"]
    /\ NoOutput
    /\ UNCHANGED <<enable, extVars, factoryVars, callVars, loopVars, addr, histVars>>

\* await service.getWalletInfo(address) of the k-th callback settles
Settle(c, k) ==
    /\ pc[c] = "allSettled"
    /\ k \in 1..Len(balances[c])
    /\ balances[c][k].status = "pending"
    /\ \E r \in getWalletInfo(acc[c][k].id) :
          /\ balances' = [balances EXCEPT ![c][k] = OnWalletInfo(acc[c][k].network, addr[c], r)]
          /\ outcome' = [outcome EXCEPT ![c][k] = IF r.ok THEN "ok" ELSE "throw"]
    /\ NoOutput
    /\ UNCHANGED <<enable, extVars, factoryVars, callVars, loopVars, addr, histVars>>

IsSuccessful(result) ==
    result.status = "fulfilled" /\ result.value.status = "success"

\* faulty variant: only rejected promises count as failed
IsFailed_RejectedOnly(result) ==
    result.status = "rejected"

IsFailed(result) ==
    \/ result.status = "rejected"
    \/ (result.status = "fulfilled" /\ result.value.status # "success")

FailedValue(result) ==
    IF result.status = "rejected"
    THEN [error |-> "message", status |-> "rejected"]
    ELSE result.value

\* faulty variant: the accumulator is dropped, the reduce yields the last balance
SumBalance_LastOnly(items) ==
    IF items = <<>> THEN 0 ELSE items[Len(items)].balance

RECURSIVE SumBalance(_)
\* successful.reduce((sum, item) => sum + item.balance, 0)
SumBalance(items) ==
    IF items = <<>> THEN 0
    ELSE SumBalance(SubSeq(items, 1, Len(items) - 1)) + items[Len(items)].balance

Values(results) == [k \in 1..Len(results) |-> results[k].value]

\* the body of res.json(...)
BuildReport(a, results) ==
    LET successful == Values(SelectSeq(results, IsSuccessful))
        failedNetworks == [k \in 1..Len(SelectSeq(results, IsFailed)) |->
                              FailedValue(SelectSeq(results, IsFailed)[k])]
    IN  [address |-> a,
         networks |-> successful,
         totalNetworks |-> Len(successful),
         totalBalance |-> SumBalance(successful),
         failedNetworks |-> failedNetworks,
         summary |-> [successfulQueries |-> Len(successful),
                      failedQueries |-> Len(failedNetworks),
                      totalNetworksChecked |-> Len(results)]]

\* faulty variant: the handler answers without waiting for the pending callbacks
Respond_WithoutWaiting(c) ==
    /\ pc[c] = "allSettled"
    /\ response' = [client |-> c, status |-> 200, services |-> acc[c],
                     failed |-> failed[c], outcome |-> outcome[c],
                     settled |-> balances[c],
                     body |-> BuildReport(addr[c], balances[c])]
    /\ op' = [op EXCEPT ![c] = "none"]
    /\ pc' = [pc EXCEPT ![c] = "idle"]
    /\ ResetLoop(c)
    /\ addr' = [addr EXCEPT ![c] = {}]
    /\ balances' = [balances EXCEPT ![c] = <<>>]
    /\ outcome' = [outcome EXCEPT ![c] = <<>>]
    /\ allResult' = NoResult
    /\ UNCHANGED <<enable, extVars, factoryVars, net, inst, histVars>>

\* faulty variant: nothing is sent when a callback did not end in a success entry
Respond_OnlyOnSuccess(c) ==
    /\ pc[c] = "allSettled"
    /\ \A k \in 1..Len(balances[c]) : outcome[c][k] = "ok"
    /\ response' = [client |-> c, status |-> 200, services |-> acc[c],
                     failed |-> failed[c], outcome |-> outcome[c],
                     settled |-> balances[c],
                     body |-> BuildReport(addr[c], balances[c])]
    /\ op' = [op EXCEPT ![c] = "none"]
    /\ pc' = [pc EXCEPT ![c] = "idle"]
    /\ ResetLoop(c)
    /\ addr' = [addr EXCEPT ![c] = {}]
    /\ balances' = [balances EXCEPT ![c] = <<>>]
    /\ outcome' = [outcome EXCEPT ![c] = <<>>]
    /\ allResult' = NoResult
    /\ UNCHANGED <<enable, extVars, factoryVars, net, inst, histVars>>

\* Promise.allSettled resolves once no callback is pending; the handler answers
Respond(c) ==
    /\ pc[c] = "allSettled"
    /\ \A k \in 1..Len(balances[c]) : balances[c][k].status # "pending"
    /\ response' = [client |-> c, status |-> 200, services |-> acc[c],
                     failed |-> failed[c], outcome |-> outcome[c],
                     settled |-> balances[c],
                     body |-> BuildReport(addr[c], balances[c])]
    /\ op' = [op EXCEPT ![c] = "none"]
    /\ pc' = [pc EXCEPT ![c] = "idle"]
    /\ ResetLoop(c)
    /\ addr' = [addr EXCEPT ![c] = {}]
    /\ balances' = [balances EXCEPT ![c] = <<>>]
    /\ outcome' = [outcome EXCEPT ![c] = <<>>]
    /\ allResult' = NoResult
    /\ UNCHANGED <<enable, extVars, factoryVars, net, inst, histVars>>

NextAgg ==
    \/ \E c \in Clients : GetMultiNetworkBalance(c)
    \/ \E c \in Clients : LoopStep(c)
    \/ \E c \in Clients : InitializeOk(c)
    \/ \E c \in Clients : InitializeFail(c)
    \/ \E c \in Clients, a \in SUBSET NetworkType : FanOut(c, a)
    \/ \E c \in Clients, k \in 1..NumNetworks : Settle(c, k)
    \/ \E c \in Clients : Respond(c)

SpecAgg == Init /\ [][NextAgg]_vars

\* ------------------------------------- aggregation engine, every call settles
\* the adapters a getAllServices loop that starts now may have to construct: one per
\* network that has no cache entry
LeftToConstruct == {j \in 1..Len(NetworkOrder) : services[NetworkOrder[j]] = 0}

\* requests are taken one at a time, and only while the adapters the request may
\* construct are within MaxInstances
GetMultiNetworkBalanceWithinBudget(c) ==
    /\ \A d \in Clients : Idle(d)
    /\ nextId + Cardinality(LeftToConstruct) <= MaxInstances
    /\ GetMultiNetworkBalance(c)

NextAggFair ==
    \/ \E c \in Clients : GetMultiNetworkBalanceWithinBudget(c)
    \/ \E c \in Clients : LoopStep(c)
    \/ \E c \in Clients : InitializeOk(c)
    \/ \E c \in Clients : InitializeFail(c)
    \/ \E c \in Clients, a \in SUBSET NetworkType : FanOut(c, a)
    \/ \E c \in Clients, k \in 1..NumNetworks : Settle(c, k)
    \/ \E c \in Clients : Respond(c)

\* the event loop runs every continuation that is ready (LoopStep, FanOut, Respond);
\* every initialize() and every getWalletInfo that was started settles
Settling ==
    \A c \in Clients :
        /\ WF_vars(LoopStep(c))
        /\ WF_vars(InitializeOk(c) \/ InitializeFail(c))
        /\ WF_vars(\E a \in SUBSET NetworkType : FanOut(c, a))
        /\ WF_vars(\E k \in 1..NumNetworks : Settle(c, k))
        /\ WF_vars(Respond(c))

SpecAggFair == Init /\ [][NextAggFair]_vars /\ Settling

\* ------------------------------------------------------- adapter methods
\* the adapter classes of src/ (PolygonService is imported by the factory but absent)
Adapters == {"arbitrum", "ton", "solana", "ripple", "avalanche", "cardano", "trc20"}

\* the adapter object whose methods are called directly: the first one constructed
SubjectId == 1

\* an address, as the set of adapter classes whose format check accepts it
AddressesOf(n) == {{}, {n}}

\* handleError(error, context): throw new Error(`${networkType} ${context} failed: ...`);
\* contexts lists the methods the error passed through, outermost first
Failure(n, contexts, message, rpc) ==
    [ok |-> FALSE, error |-> [network |-> n, contexts |-> contexts, message |-> message],
     rpc |-> rpc]

Success(value, rpc) == [ok |-> TRUE, value |-> value, rpc |-> rpc]

\* the message of the Error each adapter throws for an address it does not accept
InvalidAddressMessage(n) ==
    CASE n = "arbitrum" -> "Invalid Ethereum address format"
      [] n = "avalanche" -> "Invalid Avalanche address format"
      [] n = "solana" -> "Invalid Solana address format"
      [] n = "ton" -> "Invalid TON address format"
      [] n = "trc20" -> "Invalid Tron address format"
      [] n = "cardano" -> "Invalid Cardano address format"
      [] n = "ripple" -> "Invalid XRP address format"

\* the field initialize() sets (provider, connection, client, tronWeb, apiUrl) is
\* undefined on an adapter that was never initialized: using it throws a TypeError
NoClient == "TypeError"

\* getBalance(address)
Service_getBalance(n, i, a) ==
    IF ~validateAddress(n, i, a)
    THEN {Failure(n, <<"getBalance">>, InvalidAddressMessage(n), <<>>)}
    ELSE IF i \notin initOk
    THEN {Failure(n, <<"getBalance">>, NoClient, <<>>)}
    ELSE {Success(b, <<"getBalance">>) : b \in Balances}
            \cup {Failure(n, <<"getBalance">>, "rpc", <<"getBalance">>)}

\* the second query of getWalletInfo, issued together with getBalance by TRC20Service
\* (Promise.all) and after it by the others
AccountQuery(n) == IF n = "trc20" THEN "getAccount" ELSE "getTransactionCount"

\* faulty variant: getWalletInfo does not check the address itself
Service_getWalletInfo_NoValidation(n, i, a) ==
    UNION {
        IF ~r.ok
        THEN {Failure(n, <<"getWalletInfo">> \o r.error.contexts, r.error.message,
                      IF n = "trc20" THEN r.rpc \o <<AccountQuery(n)>> ELSE r.rpc)}
        ELSE {Success([address |-> a, balance |-> r.value, nativeToken |-> n],
                      r.rpc \o <<AccountQuery(n)>>)}
                \cup (IF n = "ton"
                      THEN {}
                      ELSE {Failure(n, <<"getWalletInfo">>, "rpc",
                                    r.rpc \o <<AccountQuery(n)>>)})
        : r \in Service_getBalance(n, i, a)}

\* getWalletInfo(address): the address check, then getBalance and the account query;
\* TONService swallows a failure of the account query
Service_getWalletInfo(n, i, a) ==
    IF ~validateAddress(n, i, a)
    THEN {Failure(n, <<"getWalletInfo">>, InvalidAddressMessage(n), <<>>)}
    ELSE UNION {
        IF ~r.ok
        THEN {Failure(n, <<"getWalletInfo">> \o r.error.contexts, r.error.message,
                      IF n = "trc20" THEN r.rpc \o <<AccountQuery(n)>> ELSE r.rpc)}
        ELSE {Success([address |-> a, balance |-> r.value, nativeToken |-> n],
                      r.rpc \o <<AccountQuery(n)>>)}
                \cup (IF n = "ton"
                      THEN {}
                      ELSE {Failure(n, <<"getWalletInfo">>, "rpc",
                                    r.rpc \o <<AccountQuery(n)>>)})
        : r \in Service_getBalance(n, i, a)}

\* this.wallet (this.keypair; this.wallet and this.keyPair for TON) is assigned only by
\* initialize(), and only when the environment holds a key
HasWallet(i, e) == i \in initOk /\ e.key

\* the adapters whose sendTransaction checks request.from
ChecksSender == {"arbitrum", "ripple"}

\* the status sendTransaction reports for a submitted transaction
SubmittedStatus(n) ==
    CASE n \in {"arbitrum", "avalanche", "ton", "cardano"} -> {"pending"}
      [] n = "solana" -> {"confirmed"}
      [] n = "trc20" -> {"pending", "failed"}
      [] n = "ripple" -> {"confirmed", "pending"}

\* sendTransaction(request); CardanoService only simulates the submission
Service_sendTransaction(n, i, e, req) ==
    IF ~HasWallet(i, e)
    THEN {Failure(n, <<"sendTransaction">>, "Wallet not initialized", <<>>)}
    ELSE IF ~validateAddress(n, i, req.to)
    THEN {Failure(n, <<"sendTransaction">>, "Invalid recipient address", <<>>)}
    ELSE IF n \in ChecksSender /\ req.hasFrom /\ ~validateAddress(n, i, req.from)
    THEN {Failure(n, <<"sendTransaction">>, "Invalid sender address", <<>>)}
    ELSE IF n = "cardano"
    THEN {Success([status |-> st], <<>>) : st \in SubmittedStatus(n)}
    ELSE {Success([status |-> st], <<"build", "sign", "send">>) : st \in SubmittedStatus(n)}
            \cup {Failure(n, <<"sendTransaction">>, "rpc", <<"build">>)}

\* what the chain says about a transaction identifier
ChainReports == {"unknown", "pending", "confirmed", "failed", "unreachable"}

\* getTransactionStatus(hash) of the EVM, Solana and Tron adapters: a null lookup is
\* reported as 'failed'
StatusByLookup(n, i, chain) ==
    IF i \notin initOk
    THEN Failure(n, <<"getTransactionStatus">>, NoClient, <<>>)
    ELSE IF chain = "unreachable"
    THEN Failure(n, <<"getTransactionStatus">>, "rpc", <<"getTransaction">>)
    ELSE Success([status |-> IF chain = "unknown" THEN "failed" ELSE chain],
                 <<"getTransaction">>)

\* getTransactionStatus(hash), per adapter class
Service_getTransactionStatus(n, i, h, chain) ==
    CASE n \in {"arbitrum", "avalanche", "solana", "trc20"} -> StatusByLookup(n, i, chain)
      [] n = "ton" ->
            \* a hash starting with 'ton_' is reported confirmed unseen; otherwise the
            \* wallet's recent transactions are searched, 'pending' when not found or
            \* when the search throws
            IF h.tonPrefix
            THEN Success([status |-> "confirmed"], <<>>)
            ELSE IF i \in initOk /\ chain \in {"confirmed", "failed"}
            THEN Success([status |-> "confirmed"], <<"getTransactions">>)
            ELSE Success([status |-> "pending"],
                         IF i \in initOk THEN <<"getTransactions">> ELSE <<>>)
      [] n = "cardano" ->
            \* every error of the API call is reported as 'failed'
            IF i \notin initOk
            THEN Success([status |-> "failed"], <<>>)
            ELSE IF chain \in {"unknown", "unreachable"}
            THEN Success([status |-> "failed"], <<"txs">>)
            ELSE Success([status |-> IF chain = "pending" THEN "pending" ELSE "confirmed"],
                         <<"txs">>)
      [] n = "ripple" ->
            \* the 'tx' request rejects for an unknown hash and the error is rethrown
            IF i \notin initOk
            THEN Failure(n, <<"getTransactionStatus">>, NoClient, <<>>)
            ELSE IF chain \in {"unknown", "unreachable"}
            THEN Failure(n, <<"getTransactionStatus">>, "rpc", <<"tx">>)
            ELSE Success([status |-> IF chain = "pending" THEN "pending" ELSE "confirmed"],
                         <<"tx">>)

\* CreateWalletOptions: mnemonic 0 and index -1 stand for an absent field, path tells
\* whether derivationPath is given
WalletOptions ==
    [mnemonic : 0..NumMnemonics, index : -1..MaxIndex, path : BOOLEAN]

\* where a wallet comes from: a mnemonic the caller passed (1..NumMnemonics), the seed
\* of the environment (0), or the k-th value of the random generator (-k)
EnvSeed == 0

Fresh(k) == 0 - k

NoPath == [custom |-> FALSE, index |-> -1]

\* options.derivationPath || `m/44'/<coin>'/${options.index}'/0/0`
PathOf(opts) == [custom |-> opts.path, index |-> IF opts.path THEN -1 ELSE opts.index]

\* key derivation is a function of the seed and the path, and nothing else
Wallet(seed, path) ==
    [address |-> [seed |-> seed, path |-> path],
     publicKey |-> [seed |-> seed, path |-> path],
     privateKey |-> [seed |-> seed, path |-> path],
     mnemonic |-> seed]

\* options?.mnemonic || process.env.<NETWORK>_SEED, else newly generated
SeedOrEnv(e, opts, k) ==
    IF opts.mnemonic # 0 THEN opts.mnemonic ELSE IF e.seed THEN EnvSeed ELSE Fresh(k)

\* createWallet(options), per adapter class; k is what the random generator yields
Service_createWallet(n, i, e, opts, k) ==
    CASE n \in {"arbitrum", "avalanche", "solana"} ->
            Success(Wallet(SeedOrEnv(e, opts, k),
                           IF opts.index # -1 THEN PathOf(opts) ELSE NoPath), <<>>)
      [] n = "ton" ->
            \* the index is used as the workchain of the address, the keys ignore it
            [ok |-> TRUE,
             value |-> [Wallet(SeedOrEnv(e, opts, k), NoPath) EXCEPT
                          !.address.path.index = IF opts.index # -1 THEN opts.index ELSE 0],
             rpc |-> <<>>]
      [] n = "trc20" ->
            \* tronWeb.address.fromPrivateKey returns the address string (initializeWallet
            \* uses it so), hence account.address is undefined in the mnemonic branch
            IF i \notin initOk
            THEN Failure(n, <<"createWallet">>, NoClient, <<>>)
            ELSE IF opts.mnemonic # 0
            THEN Failure(n, <<"createWallet">>, "TypeError", <<>>)
            ELSE Success(Wallet(Fresh(k), NoPath), <<>>)
      [] n = "cardano" ->
            Success(Wallet(IF opts.mnemonic # 0 THEN opts.mnemonic ELSE Fresh(k), NoPath),
                    <<>>)
      [] n = "ripple" ->
            Success(Wallet(IF opts.mnemonic # 0 THEN opts.mnemonic ELSE Fresh(k),
                           IF opts.index # -1 THEN PathOf(opts) ELSE NoPath), <<>>)

\* estimateGas(request): the TON, Solana, Ripple and Cardano adapters answer a default
\* fee from their catch block, the others rethrow through handleError
Service_estimateGas(n, i, req) ==
    CASE n \in {"ton", "solana", "ripple", "cardano"} ->
            {Success("fee", IF n \in {"solana", "ripple"} /\ i \in initOk
                                /\ validateAddress(n, i, req.to)
                            THEN <<"estimateGas">> ELSE <<>>)}
      [] n \in {"arbitrum", "avalanche", "trc20"} ->
            IF ~validateAddress(n, i, req.to)
            THEN {Failure(n, <<"estimateGas">>, "Invalid recipient address", <<>>)}
            ELSE IF i \notin initOk
            THEN {Failure(n, <<"estimateGas">>, NoClient, <<>>)}
            ELSE {Success("fee", <<"estimateGas">>),
                  Failure(n, <<"estimateGas">>, "rpc", <<"estimateGas">>)}

\* getLatestBlock()
Service_getLatestBlock(n, i) ==
    IF i \notin initOk
    THEN {Failure(n, <<"getLatestBlock">>, NoClient, <<>>)}
    ELSE {Success("block", <<"getBlock">>),
          Failure(n, <<"getLatestBlock">>, "rpc", <<"getBlock">>)}

\* one adapter object of any class, initialized or not, in any environment
InitAdapter ==
    /\ subject \in Adapters
    /\ env \in [key : BOOLEAN, seed : BOOLEAN]
    /\ nextId = SubjectId
    /\ initOk \in {{}, {SubjectId}}
    /\ enable = [n \in NetworkType |-> n = subject /\ initOk # {}]
    /\ services = [n \in NetworkType |-> IF enable[n] THEN SubjectId ELSE 0]
    /\ initCount = [n \in NetworkType |-> IF enable[n] THEN 1 ELSE 0]
    /\ op = [c \in Clients |-> "none"]
    /\ pc = [c \in Clients |-> "idle"]
    /\ net = [c \in Clients |-> NetworkOrder[1]]
    /\ inst = [c \in Clients |-> 0]
    /\ idx = [c \in Clients |-> 0]
    /\ acc = [c \in Clients |-> <<>>]
    /\ failed = [c \in Clients |-> {}]
    /\ addr = [c \in Clients |-> {}]
    /\ balances = [c \in Clients |-> <<>>]
    /\ outcome = [c \in Clients |-> <<>>]
    /\ lastRet = [c \in Clients |-> [network |-> NetworkOrder[1], instance |-> 0]]
    /\ repeated = FALSE
    /\ allResult = NoResult
    /\ response = NoResponse
    /\ listed = <<>>
    /\ wallets = <<>>
    /\ last = NoCall
    /\ handling = [c \in Clients |-> FALSE]
    /\ server = "listening"
    /\ details = <<>>
    /\ booted = FALSE

\* the adapter methods assign no field: only the call log changes
AdapterFrame ==
    UNCHANGED <<enable, factoryVars, callVars, loopVars, aggVars, histVars, allResult,
                response, env, listed, subject, handling, server, details, booted>>

\* the log keeps the latest call and up to two createWallet calls; once it holds two,
\* the next other call drops the older one
Recent(log) == IF Len(log) = 2 THEN Tail(log) ELSE log

CallGetBalance(a) ==
    /\ \E r \in Service_getBalance(subject, SubjectId, a) :
          last' = [op |-> "getBalance", address |-> a, ret |-> r]
    /\ wallets' = Recent(wallets)
    /\ AdapterFrame

CallGetWalletInfo(a) ==
    /\ \E r \in Service_getWalletInfo(subject, SubjectId, a) :
          last' = [op |-> "getWalletInfo", address |-> a, ret |-> r]
    /\ wallets' = Recent(wallets)
    /\ AdapterFrame

CallSendTransaction(req) ==
    /\ \E r \in Service_sendTransaction(subject, SubjectId, env, req) :
          last' = [op |-> "sendTransaction", request |-> req, ret |-> r]
    /\ wallets' = Recent(wallets)
    /\ AdapterFrame

CallGetTransactionStatus(h, chain) ==
    /\ last' = [op |-> "getTransactionStatus", hash |-> h, chain |-> chain,
                ret |-> Service_getTransactionStatus(subject, SubjectId, h, chain)]
    /\ wallets' = Recent(wallets)
    /\ AdapterFrame

CallEstimateGas(req) ==
    /\ \E r \in Service_estimateGas(subject, SubjectId, req) :
          last' = [op |-> "estimateGas", request |-> req, ret |-> r]
    /\ wallets' = Recent(wallets)
    /\ AdapterFrame

CallGetLatestBlock ==
    /\ \E r \in Service_getLatestBlock(subject, SubjectId) :
          last' = [op |-> "getLatestBlock", ret |-> r]
    /\ wallets' = Recent(wallets)
    /\ AdapterFrame

CallCreateWallet(opts, k) ==
    /\ Len(wallets) < 2
    /\ wallets' = Append(Recent(wallets),
                         [options |-> opts, entropy |-> k,
                          ret |-> Service_createWallet(subject, SubjectId, env, opts, k)])
    /\ last' = NoCall
    /\ AdapterFrame

NextAdapter ==
    \/ \E a \in AddressesOf(subject) : CallGetBalance(a)
    \/ \E a \in AddressesOf(subject) : CallGetWalletInfo(a)
    \/ \E to \in AddressesOf(subject), hasFrom \in BOOLEAN, from \in AddressesOf(subject) :
          CallSendTransaction([to |-> to, hasFrom |-> hasFrom, from |-> from])
    \/ \E tonPrefix \in BOOLEAN, chain \in ChainReports :
          CallGetTransactionStatus([tonPrefix |-> tonPrefix], chain)
    \/ \E to \in AddressesOf(subject), hasFrom \in BOOLEAN, from \in AddressesOf(subject) :
          CallEstimateGas([to |-> to, hasFrom |-> hasFrom, from |-> from])
    \/ CallGetLatestBlock

SpecAdapter == InitAdapter /\ [][NextAdapter]_vars

\* createWallet calls, with other calls on the same adapter in between
NextWallet ==
    \/ \E opts \in WalletOptions, k \in 1..NumEntropy : CallCreateWallet(opts, k)
    \/ \E a \in AddressesOf(subject) : CallGetBalance(a)
    \/ \E to \in AddressesOf(subject), hasFrom \in BOOLEAN, from \in AddressesOf(subject) :
          CallSendTransaction([to |-> to, hasFrom |-> hasFrom, from |-> from])

SpecWallet == InitAdapter /\ [][NextWallet]_vars

\* ------------------------------------------------- single-network handlers
\* the handlers of BlockchainController that serve one network
Handlers ==
    {"getBalance", "sendTransaction", "getTransactionStatus", "getWalletInfo",
     "getLatestBlock", "estimateGas", "validateAddress", "createWallet"}

\* what a request carries: req.params.address or body.to, and body.from
Requests(h, n) ==
    CASE h \in {"getBalance", "getWalletInfo", "validateAddress"} ->
            {[hasTo |-> TRUE, to |-> a, hasFrom |-> FALSE, from |-> {}] :
                a \in AddressesOf(n)}
      [] h \in {"sendTransaction", "estimateGas"} ->
            {[hasTo |-> TRUE, to |-> a, hasFrom |-> FALSE, from |-> {}] :
                a \in AddressesOf(n)}
            \cup {[hasTo |-> TRUE, to |-> a, hasFrom |-> TRUE, from |-> b] :
                    a \in AddressesOf(n), b \in AddressesOf(n)}
      [] OTHER -> {[hasTo |-> FALSE, to |-> {}, hasFrom |-> FALSE, from |-> {}]}

\* res.status(status).json(...): calls are the adapter methods the handler awaited,
\* failed tells that createService or one of them threw
Reply(status, calls, threw) == [status |-> status, calls |-> calls, failed |-> threw]

\* faulty variant: sendTransaction checks the recipient only
CheckedAddresses_RecipientOnly(h, req) ==
    IF h \in {"getBalance", "getWalletInfo", "sendTransaction", "estimateGas"}
    THEN {req.to}
    ELSE {}

\* the addresses a handler passes to service.validateAddress before it goes on
CheckedAddresses(h, req) ==
    CASE h \in {"getBalance", "getWalletInfo", "estimateGas"} -> {req.to}
      [] h = "sendTransaction" -> {req.to} \cup (IF req.hasFrom THEN {req.from} ELSE {})
      [] OTHER -> {}

\* the handler past its address checks, up to its response
HandlerBody(h, n, i, e, req) ==
    CASE h = "getBalance" ->
            UNION {IF ~b.ok
                   THEN {Reply(500, <<"getBalance">>, TRUE)}
                   ELSE {Reply(IF w.ok THEN 200 ELSE 500, <<"getBalance", "getWalletInfo">>,
                               ~w.ok) : w \in Service_getWalletInfo(n, i, req.to)}
                   : b \in Service_getBalance(n, i, req.to)}
      [] h = "sendTransaction" ->
            {Reply(IF r.ok THEN 200 ELSE 500, <<"sendTransaction">>, ~r.ok) :
                r \in Service_sendTransaction(n, i, e, req)}
      [] h = "getTransactionStatus" ->
            {Reply(IF r.ok THEN 200 ELSE 500, <<"getTransactionStatus">>, ~r.ok) :
                r \in {Service_getTransactionStatus(n, i, [tonPrefix |-> t], chain) :
                          t \in BOOLEAN, chain \in ChainReports}}
      [] h = "getWalletInfo" ->
            {Reply(IF r.ok THEN 200 ELSE 500, <<"getWalletInfo">>, ~r.ok) :
                r \in Service_getWalletInfo(n, i, req.to)}
      [] h = "getLatestBlock" ->
            {Reply(IF r.ok THEN 200 ELSE 500, <<"getLatestBlock">>, ~r.ok) :
                r \in Service_getLatestBlock(n, i)}
      [] h = "estimateGas" ->
            UNION {IF ~g.ok
                   THEN {Reply(500, <<"estimateGas">>, TRUE)}
                   ELSE {Reply(IF w.ok THEN 200 ELSE 500, <<"estimateGas", "getWalletInfo">>,
                               ~w.ok) : w \in Service_getWalletInfo(n, i, req.to)}
                   : g \in Service_estimateGas(n, i, req)}
      [] h = "validateAddress" ->
            \* res.json({..., isValid, ...})
            {Reply(200, <<>>, FALSE)}
      [] h = "createWallet" ->
            {Reply(IF r.ok THEN 200 ELSE 500, <<"createWallet">>, ~r.ok) :
                r \in {Service_createWallet(n, i, e, opts, k) :
                          opts \in WalletOptions, k \in 1..NumEntropy}}

\* a handler from the return of createService to its response; i = -1: createService
\* threw and the catch block answers
Handle(h, n, i, e, req) ==
    IF i = -1
    THEN {Reply(500, <<>>, TRUE)}
    ELSE IF \E a \in CheckedAddresses(h, req) : ~validateAddress(n, i, a)
    THEN {Reply(400, <<>>, FALSE)}
    ELSE HandlerBody(h, n, i, e, req)

\* the factory as at process start, with or without a signing key in the environment
InitHandlers ==
    /\ enable \in [NetworkType -> BOOLEAN]
    /\ services = [n \in NetworkType |-> 0]
    /\ nextId = 0
    /\ initCount = [n \in NetworkType |-> 0]
    /\ initOk = {}
    /\ op = [c \in Clients |-> "none"]
    /\ pc = [c \in Clients |-> "idle"]
    /\ net = [c \in Clients |-> NetworkOrder[1]]
    /\ inst = [c \in Clients |-> 0]
    /\ idx = [c \in Clients |-> 0]
    /\ acc = [c \in Clients |-> <<>>]
    /\ failed = [c \in Clients |-> {}]
    /\ addr = [c \in Clients |-> {}]
    /\ balances = [c \in Clients |-> <<>>]
    /\ outcome = [c \in Clients |-> <<>>]
    /\ lastRet = [c \in Clients |-> [network |-> NetworkOrder[1], instance |-> 0]]
    /\ repeated = FALSE
    /\ allResult = NoResult
    /\ response = NoResponse
    /\ env \in [key : BOOLEAN, seed : {FALSE}]
    /\ listed = <<>>
    /\ subject = NetworkOrder[1]
    /\ wallets = <<>>
    /\ last = NoCall
    /\ handling = [c \in Clients |-> FALSE]
    /\ server = "listening"
    /\ details = <<>>
    /\ booted = FALSE

\* a request arrives: const service = await BlockchainServiceFactory.createService(network).
\* The requests are taken one after the other here; createService calls that overlap
\* are the subject of Spec
StartRequest(c, n) ==
    /\ Idle(c)
    /\ \A d \in Clients : ~handling[d]
    /\ createService(c, n, "createService")
    /\ handling' = [handling EXCEPT ![c] = TRUE]
    /\ response' = NoResponse
    /\ UNCHANGED <<enable, aggVars, env, listed, subject, wallets, last, server, details, booted>>

\* the handler resumes with the adapter, or in its catch block, and answers.  The
\* adapter methods it awaits assign nothing and read only their own adapter, whose
\* initialize() is over or was never called, so the awaits are not interleaving points
Answer(c, h, req) ==
    /\ handling[c]
    /\ Idle(c)
    /\ \E r \in Handle(h, lastRet[c].network, lastRet[c].instance, env, req) :
          response' = [client |-> c, status |-> r.status, handler |-> h,
                       network |-> lastRet[c].network, instance |-> lastRet[c].instance,
                       request |-> req, calls |-> r.calls, failed |-> r.failed]
    /\ handling' = [handling EXCEPT ![c] = FALSE]
    \* the handler returns: its local `service` is gone
    /\ lastRet' = [lastRet EXCEPT ![c] = [network |-> NetworkOrder[1], instance |-> 0]]
    /\ allResult' = NoResult
    /\ UNCHANGED <<enable, factoryVars, callVars, loopVars, aggVars, repeated, env,
                   listed, subject, wallets, last, server, details, booted>>

NextHandlers ==
    \/ \E c \in Clients, n \in NetworkType : StartRequest(c, n)
    \/ \E c \in Clients : InitializeOk(c)
    \/ \E c \in Clients : InitializeFail(c)
    \/ \E c \in Clients, h \in Handlers :
          \E req \in Requests(h, lastRet[c].network) : Answer(c, h, req)

SpecHandlers == InitHandlers /\ [][NextHandlers]_vars

\* ------------------------------------------------------------- startServer
\* the client that stands for startServer(), which awaits getAllServices()
StartupClient == 1

\* startServer() has called BlockchainServiceFactory.getAllServices(), whose loop is
\* about to make its first createService call; nothing listens yet
InitStart ==
    /\ enable \in [NetworkType -> BOOLEAN]
    /\ services = [n \in NetworkType |-> 0]
    /\ nextId = 0
    /\ initCount = [n \in NetworkType |-> 0]
    /\ initOk = {}
    /\ op = [c \in Clients |-> IF c = StartupClient THEN "getAllServices" ELSE "none"]
    /\ pc = [c \in Clients |-> IF c = StartupClient THEN "loop" ELSE "idle"]
    /\ net = [c \in Clients |-> NetworkOrder[1]]
    /\ inst = [c \in Clients |-> 0]
    /\ idx = [c \in Clients |-> IF c = StartupClient THEN 1 ELSE 0]
    /\ acc = [c \in Clients |-> <<>>]
    /\ failed = [c \in Clients |-> {}]
    /\ addr = [c \in Clients |-> {}]
    /\ balances = [c \in Clients |-> <<>>]
    /\ outcome = [c \in Clients |-> <<>>]
    /\ lastRet = [c \in Clients |-> [network |-> NetworkOrder[1], instance |-> 0]]
    /\ repeated = FALSE
    /\ allResult = NoResult
    /\ response = NoResponse
    /\ env = NoEnv
    /\ listed = <<>>
    /\ subject = NetworkOrder[1]
    /\ wallets = <<>>
    /\ last = NoCall
    /\ handling = [c \in Clients |-> FALSE]
    /\ server = "warming"
    /\ details = <<>>
    /\ booted = FALSE

\* faulty variant: a network that failed to initialize is fatal to the startup
StartServerResume_FailureIsFatal ==
    /\ server = "warming"
    /\ allResult.client = StartupClient
    /\ server' = IF allResult.status = "returned" /\ allResult.failed = {}
                 THEN "listening" ELSE "exited"
    /\ booted' = TRUE
    /\ NoOutput
    /\ UNCHANGED <<enable, factoryVars, callVars, loopVars, aggVars, histVars, env,
                   listed, subject, wallets, last, handling, details>>

\* startServer() resumes from await getAllServices(): new App(), app.listen(PORT);
\* had the call thrown, the catch block would call process.exit(1)
StartServerResume ==
    /\ server = "warming"
    /\ allResult.client = StartupClient
    /\ server' = IF allResult.status = "returned" THEN "listening" ELSE "exited"
    /\ booted' = TRUE
    /\ NoOutput
    /\ UNCHANGED <<enable, factoryVars, callVars, loopVars, aggVars, histVars, env,
                   listed, subject, wallets, last, handling, details>>

\* the steps of the warm-up: only startServer runs before the server listens
Warmup ==
    /\ server = "warming"
    /\ \/ LoopStep(StartupClient)
       \/ InitializeOk(StartupClient)
       \/ InitializeFail(StartupClient)
       \/ GetAllServicesReturn(StartupClient)
       \/ StartServerResume

\* Request handlers run once the server listens.  The warm-up has constructed one
\* adapter per network; the handlers construct at most ServingInstances more
NextStart ==
    \/ server = "warming" /\ LoopStep(StartupClient)
    \/ server = "warming" /\ InitializeOk(StartupClient)
    \/ server = "warming" /\ InitializeFail(StartupClient)
    \/ server = "warming" /\ GetAllServicesReturn(StartupClient)
    \/ StartServerResume
    \/ server = "listening" /\ \E c \in Clients, n \in NetworkType : CallCreateService(c, n)
    \/ server = "listening" /\ \E c \in Clients : InitializeOk(c)
    \/ server = "listening" /\ \E c \in Clients : InitializeFail(c)
    \/ server = "listening" /\ \E c \in Clients : GetAllServices(c)
    \/ server = "listening" /\ \E c \in Clients : LoopStep(c)
    \/ server = "listening" /\ \E c \in Clients : GetAllServicesReturn(c)

SpecStart == InitStart /\ [][NextStart]_vars

\* every initialize() the warm-up awaits settles, and startServer is scheduled
SpecStartFair == SpecStart /\ WF_vars(Warmup)

\* ------------------------------------------- getSupportedNetworks handler
\* faulty variant: a network with enable == false is reported as unavailable
NetworkDetail_EnabledOnly(n, i) ==
    IF i # -1 /\ enable[n]
    THEN [type |-> n, status |-> "available"]
    ELSE [type |-> n, status |-> "unavailable", error |-> "message"]

\* what the callback of networks.map returns for network n when createService
\* resolved with instance i, or threw (i = -1)
NetworkDetail(n, i) ==
    IF i # -1
    THEN [type |-> n, status |-> "available"]
    ELSE [type |-> n, status |-> "unavailable", error |-> "message"]

\* a settled promise of networkDetails; the callback catches, so none is rejected
FulfilledDetail(n, i) ==
    [status |-> "fulfilled", value |-> NetworkDetail(n, i), instance |-> i]

\* the positions up to k of getAvailableNetworks() whose network has no cache entry
Uncached(k) == {j \in 1..k : services[getAvailableNetworks[j]] = 0}

\* getSupportedNetworks up to await Promise.allSettled: networks.map starts every
\* callback, each runs createService up to its first suspension
GetSupportedNetworks ==
    /\ details = <<>>
    /\ nextId + Cardinality(Uncached(Len(getAvailableNetworks))) <= MaxInstances
    /\ details' = [k \in 1..Len(getAvailableNetworks) |->
                     LET n == getAvailableNetworks[k]
                     IN  IF services[n] # 0
                         THEN FulfilledDetail(n, services[n])
                         ELSE IF enable[n]
                              THEN [status |-> "pending", value |-> NetworkDetail(n, -1),
                                    instance |-> nextId + Cardinality(Uncached(k))]
                              ELSE FulfilledDetail(n, nextId + Cardinality(Uncached(k)))]
    /\ nextId' = nextId + Cardinality(Uncached(Len(getAvailableNetworks)))
    /\ initCount' = [n \in NetworkType |->
                       IF services[n] = 0 /\ enable[n] THEN initCount[n] + 1
                                                      ELSE initCount[n]]
    /\ NoOutput
    /\ UNCHANGED <<enable, services, initOk, callVars, loopVars, aggVars, histVars, env,
                   listed, subject, wallets, last, handling, server, booted>>

\* initialize() of the k-th callback's adapter resolves: createService caches and
\* returns it
DetailInitializeOk(k) ==
    /\ k \in DOMAIN details
    /\ details[k].status = "pending"
    /\ initOk' = initOk \cup {details[k].instance}
    /\ services' = [services EXCEPT ![getAvailableNetworks[k]] = details[k].instance]
    /\ details' = [details EXCEPT
                     ![k] = FulfilledDetail(getAvailableNetworks[k], details[k].instance)]
    /\ NoOutput
    /\ UNCHANGED <<enable, nextId, initCount, callVars, loopVars, aggVars, histVars, env,
                   listed, subject, wallets, last, handling, server, booted>>

\* initialize() of the k-th callback's adapter rejects: createService throws into the
\* callback's catch block
DetailInitializeFail(k) ==
    /\ k \in DOMAIN details
    /\ details[k].status = "pending"
    /\ details' = [details EXCEPT ![k] = FulfilledDetail(getAvailableNetworks[k], -1)]
    /\ NoOutput
    /\ UNCHANGED <<enable, factoryVars, callVars, loopVars, aggVars, histVars, env,
                   listed, subject, wallets, last, handling, server, booted>>

\* Promise.allSettled resolves: res.json({supportedNetworks, count, availableCount});
\* calls records, per network, the instance createService returned, -1 when it threw
SendSupportedNetworks ==
    /\ details # <<>>
    /\ \A k \in DOMAIN details : details[k].status = "fulfilled"
    /\ LET results == [k \in DOMAIN details |-> details[k].value]
       IN  response' = [client |-> 0, status |-> 200,
                         supportedNetworks |-> results,
                         count |-> Len(getAvailableNetworks),
                         availableCount |->
                             Len(SelectSeq(results, LAMBDA e : e.status = "available")),
                         calls |-> [k \in DOMAIN details |-> details[k].instance]]
    /\ details' = <<>>
    /\ allResult' = NoResult
    /\ UNCHANGED <<enable, factoryVars, callVars, loopVars, aggVars, histVars, env,
                   listed, subject, wallets, last, handling, server, booted>>

NextNetworks ==
    \/ GetSupportedNetworks
    \/ \E k \in 1..Len(getAvailableNetworks) : DetailInitializeOk(k)
    \/ \E k \in 1..Len(getAvailableNetworks) : DetailInitializeFail(k)
    \/ SendSupportedNetworks
    \/ \E c \in Clients, n \in NetworkType : CallCreateService(c, n)
    \/ \E c \in Clients : InitializeOk(c)
    \/ \E c \in Clients : InitializeFail(c)

SpecNetworks == Init /\ [][NextNetworks]_vars

\* ------------------------------------------------- router and middleware
\* the routes of blockchain.routes.ts that carry a :network parameter, by the
\* controller method they end in, each with its middleware in order
Routes ==
    [createWallet |-> <<"validateNetwork", "rateLimiter">>,
     getBalance |-> <<"validateNetwork", "validateAddress", "rateLimiter">>,
     sendTransaction |-> <<"validateNetwork", "validateTransactionRequest", "rateLimiter">>,
     getTransactionStatus |-> <<"validateNetwork", "rateLimiter">>,
     estimateGas |-> <<"validateNetwork", "validateTransactionRequest", "rateLimiter">>,
     getWalletInfo |-> <<"validateNetwork", "validateAddress", "rateLimiter">>,
     getLatestBlock |-> <<"validateNetwork", "rateLimiter">>]

\* a string that is no member of NetworkType
UnknownNetwork == "bitcoin"

\* what a client may put in the :network segment
NetworkParams == NetworkType \cup {UnknownNetwork}

NoBody == [hasFrom |-> FALSE, hasTo |-> FALSE, amount |-> 0]

\* request bodies: a complete one, one without `from`, one with amount 0
Bodies ==
    {[hasFrom |-> TRUE, hasTo |-> TRUE, amount |-> 1],
     [hasFrom |-> FALSE, hasTo |-> TRUE, amount |-> 1],
     [hasFrom |-> TRUE, hasTo |-> TRUE, amount |-> 0]}

\* the bodies sent to a route: the GET routes carry none
BodiesOf(route) ==
    IF "validateTransactionRequest" \in {Routes[route][k] : k \in DOMAIN Routes[route]}
    THEN Bodies
    ELSE {NoBody}

\* faulty variant: validateNetwork calls next() for every :network value
validateNetwork_PassThrough(network) == TRUE

\* validateNetwork: Object.values(NetworkType).includes(network)
validateNetwork(network) == network \in NetworkType

\* validateTransactionRequest: from and to are required strings, amount a positive number
validateTransactionRequest(body) == body.hasFrom /\ body.hasTo /\ body.amount > 0

\* the statuses with which middleware m may end the request, 0 when it calls next():
\* rateLimiter.consume resolves or rejects.  validateAddress of the middleware only
\* asks for a non-empty :address segment, which a matching route always has
Middleware(m, network, body) ==
    CASE m = "validateNetwork" -> IF validateNetwork(network) THEN {0} ELSE {400}
      [] m = "validateTransactionRequest" ->
            IF validateTransactionRequest(body) THEN {0} ELSE {400}
      [] m = "rateLimiter" -> {0, 429}
      [] OTHER -> {0}

\* the ways the chain may end: the first middleware that answers, with its status, or
\* status 0 when all call next()
RECURSIVE Chain(_, _, _)
Chain(ms, network, body) ==
    IF ms = <<>> THEN {[status |-> 0, by |-> "none"]}
    ELSE UNION {IF st # 0 THEN {[status |-> st, by |-> Head(ms)]}
                          ELSE Chain(Tail(ms), network, body)
                : st \in Middleware(Head(ms), network, body)}

\* the handler slot the router uses
RouterClient == 1

\* a request arrives on a route; its middleware run in order.  One of them answers,
\* or the controller method starts: await BlockchainServiceFactory.createService(network).
\* response tells what the router did with the request: status 0 when it was passed on
Route(c, route, network, body) ==
    /\ Idle(c)
    /\ \A d \in Clients : ~handling[d]
    /\ \E chain \in Chain(Routes[route], network, body) :
       /\ response' = [client |-> c, status |-> chain.status, handler |-> route,
                        by |-> chain.by, network |-> network, body |-> body,
                        calls |-> <<>>, failed |-> FALSE]
       /\ IF chain.status # 0
          THEN /\ allResult' = NoResult
               /\ UNCHANGED <<factoryVars, callVars, loopVars, histVars, handling>>
          ELSE /\ createService(c, network, "createService")
               /\ handling' = [handling EXCEPT ![c] = TRUE]
    /\ UNCHANGED <<enable, aggVars, env, listed, subject, wallets, last, server, details,
                   booted>>

\* code outside the router calls createService with a string that is no network id
\* (calls with a network id are the subject of Spec)
CallCreateServiceUnknown ==
    /\ \A d \in Clients : ~handling[d]
    /\ CallCreateService(RouterClient, UnknownNetwork)

NextRoutes ==
    \/ \E route \in DOMAIN Routes, network \in NetworkParams :
          \E body \in BodiesOf(route) : Route(RouterClient, route, network, body)
    \/ CallCreateServiceUnknown
    \/ InitializeOk(RouterClient)
    \/ InitializeFail(RouterClient)
    \/ \E h \in DOMAIN Routes :
          \E req \in Requests(h, lastRet[RouterClient].network) :
             Answer(RouterClient, h, req)

SpecRoutes == Init /\ [][NextRoutes]_vars

\* ------------------------------------------------------------ properties
InFlight(n) == {c \in Clients : pc[c] = "initialize" /\ net[c] = n}

Networks(entries) == {entries[k].network : k \in 1..Len(entries)}

\* the createService call of client c for network n returns in this step
Returns(c, n) ==
    lastRet'[c] # lastRet[c] /\ lastRet'[c].network = n /\ lastRet'[c].instance > 0

C2_SingleFlight ==
    \A n \in NetworkType : Cardinality(InFlight(n)) <= 1

\* C3: the initialized instances handed to callers for one network id are one
\* object, the one the cache holds
C3_OneLiveInstance ==
    \A c \in Clients :
        lastRet[c].instance \in initOk => services[lastRet[c].network] = lastRet[c].instance

\* C4: for a network with enable == false, initialize() is never invoked and the
\* cache never holds an entry
C4_DisabledNeverInitialized ==
    \A n \in NetworkType : ~enable[n] => (initCount[n] = 0 /\ services[n] = 0)

C4_Witness ==
    \E c \in Clients : ~enable[lastRet[c].network] /\ lastRet[c].instance > 0

\* an initialize() call of client c ends in this step by throwing
InitializeThrows(c) ==
    pc[c] = "initialize" /\ pc'[c] # "initialize" /\ inst[c] \notin initOk'

C6_GetAllNeverFails ==
    allResult.client # 0 =>
        /\ allResult.status = "returned"
        /\ Networks(allResult.services) = NetworkType \ allResult.failed
        /\ Len(allResult.services) = Cardinality(NetworkType \ allResult.failed)

C6_Witness ==
    /\ allResult.client # 0
    /\ allResult.failed # {}
    /\ allResult.services # <<>>

\* C7: getAllServices returns no adapter of a network with enable == false, hence
\* at most as many adapters as there are enabled networks
C7_NoDisabledAdapter ==
    allResult.client # 0 =>
        /\ \A k \in 1..Len(allResult.services) : enable[allResult.services[k].network]
        /\ Len(allResult.services) <= Cardinality({n \in NetworkType : enable[n]})

\* the entries of both partitions of a report, successful first
AllEntries(body) == body.networks \o body.failedNetworks

HasNetwork(e) == "network" \in DOMAIN e

\* the positions of the entries that carry network id n
EntriesOf(entries, n) ==
    {k \in 1..Len(entries) : HasNetwork(entries[k]) /\ entries[k].network = n}

NoIdTwice(entries) ==
    /\ \A k \in 1..Len(entries) : HasNetwork(entries[k])
    /\ \A j, k \in 1..Len(entries) : entries[j].network = entries[k].network => j = k

\* C8: when createService succeeds for every network, the report has as many
\* entries as getAvailableNetworks() has ids and no network id occurs twice in it
C8_CountMatchesAvailableNetworks ==
    (response.client # 0 /\ response.failed = {}) =>
        /\ Len(response.body.networks) + Len(response.body.failedNetworks)
              = Len(getAvailableNetworks)
        /\ NoIdTwice(AllEntries(response.body))

C8_Witness ==
    /\ response.client # 0
    /\ response.failed = {}
    /\ response.body.networks # <<>>
    /\ response.body.failedNetworks # <<>>

\* C9: every queried adapter contributes exactly one entry: the summary counts add
\* up to totalNetworksChecked, which is the number of adapters queried, and each
\* queried network has one entry, in one partition
C9_OneEntryPerQueriedAdapter ==
    response.client # 0 =>
        LET body == response.body IN
        /\ body.summary.successfulQueries + body.summary.failedQueries
              = body.summary.totalNetworksChecked
        /\ body.summary.totalNetworksChecked = Len(response.services)
        /\ body.summary.successfulQueries = Len(body.networks)
        /\ body.summary.failedQueries = Len(body.failedNetworks)
        /\ \A k \in 1..Len(response.services) :
              Cardinality(EntriesOf(body.networks, response.services[k].network))
                + Cardinality(EntriesOf(body.failedNetworks, response.services[k].network)) = 1

C9_Witness ==
    /\ response.client # 0
    /\ Len(response.body.networks) = 1
    /\ Len(response.body.failedNetworks) = 1
    /\ \E k \in 1..Len(response.outcome) : response.outcome[k] = "invalid"

Throwers(outcomes) == {k \in 1..Len(outcomes) : outcomes[k] = "throw"}

\* C10: when every adapter accepts the address and the getWalletInfo of exactly one
\* throws, the request answers 200 with a success entry for every other adapter
\* and one failed entry, of status 'error', for the throwing adapter's network
C10_OneThrowIsIsolated ==
    (/\ response.client # 0
     /\ \A k \in 1..Len(response.outcome) : response.outcome[k] \in {"ok", "throw"}
     /\ Cardinality(Throwers(response.outcome)) = 1) =>
        LET body == response.body IN
        /\ response.status = 200
        /\ \A k \in 1..Len(response.services) :
              IF response.outcome[k] = "ok"
              THEN \E j \in 1..Len(body.networks) :
                      /\ body.networks[j].network = response.services[k].network
                      /\ body.networks[j].status = "success"
              ELSE /\ Len(body.failedNetworks) = 1
                   /\ body.failedNetworks[1].status = "error"
                   /\ HasNetwork(body.failedNetworks[1])
                   /\ body.failedNetworks[1].network = response.services[k].network
        /\ Len(body.networks) = Len(response.services) - 1

C10_Witness ==
    /\ response.client # 0
    /\ \A k \in 1..Len(response.outcome) : response.outcome[k] \in {"ok", "throw"}
    /\ Cardinality(Throwers(response.outcome)) = 1
    /\ Len(response.outcome) >= 2

\* the entry of network n among entries, as a set (empty when there is none)
EntryOf(entries, n) == {entries[k] : k \in EntriesOf(entries, n)}

\* C11: an adapter that rejects the address is never asked for its wallet info and
\* yields one entry of status 'invalid_address'; an adapter that accepts it and whose
\* getWalletInfo succeeds yields an entry of status 'success', whatever the others did
C11_InvalidAddressIsNotAnError ==
    /\ \A c \in Clients :
          pc[c] = "allSettled" =>
              \A k \in 1..Len(acc[c]) :
                  IF validateAddress(acc[c][k].network, acc[c][k].id, addr[c])
                  THEN outcome[c][k] \in {"pending", "ok", "throw"}
                  ELSE /\ outcome[c][k] = "invalid"
                       /\ balances[c][k] = Fulfilled(InvalidEntry(acc[c][k].network))
    /\ response.client # 0 =>
          \A k \in 1..Len(response.services) :
              LET n == response.services[k].network IN
              /\ response.outcome[k] = "invalid" =>
                    /\ EntryOf(response.body.networks, n) = {}
                    /\ \A e \in EntryOf(response.body.failedNetworks, n) :
                          e.status = "invalid_address"
                    /\ EntryOf(response.body.failedNetworks, n) # {}
              /\ response.outcome[k] = "ok" =>
                    /\ EntryOf(response.body.failedNetworks, n) = {}
                    /\ \A e \in EntryOf(response.body.networks, n) : e.status = "success"
                    /\ EntryOf(response.body.networks, n) # {}

C11_Witness ==
    /\ response.client # 0
    /\ \E j, k \in 1..Len(response.outcome) :
          response.outcome[j] = "invalid" /\ response.outcome[k] = "ok"

\* the balances the settled callbacks reported: that of a success, 0 for any other
RECURSIVE ReportedBalance(_)
ReportedBalance(settled) ==
    IF settled = <<>> THEN 0
    ELSE (IF IsSuccessful(settled[1]) THEN settled[1].value.balance ELSE 0)
            + ReportedBalance(SubSeq(settled, 2, Len(settled)))

\* C12: totalBalance is the sum of the balances of the successful entries only: the
\* entries of the failed partition add nothing, and it is 0 when nothing succeeded
C12_TotalIsSumOfSuccessful ==
    response.client # 0 =>
        /\ response.body.totalBalance = ReportedBalance(response.settled)
        /\ response.body.networks = <<>> => response.body.totalBalance = 0
        /\ Len(response.body.networks) = 1 =>
              response.body.totalBalance = response.body.networks[1].balance

C12_Witness ==
    /\ response.client # 0
    /\ Len(response.body.networks) = 2
    /\ response.body.totalBalance = 2 * MaxBalance

\* C13: the report holds no entry, successful or failed, for a network whose
\* configuration has enable == false
C13_NoEntryForDisabledNetwork ==
    response.client # 0 =>
        \A k \in 1..Len(AllEntries(response.body)) :
            HasNetwork(AllEntries(response.body)[k])
                => enable[AllEntries(response.body)[k].network]

\* C14: getAvailableNetworks() returns every configured network id, once each,
\* whatever the enable flags, the cache and the earlier initialize() outcomes are, and
\* the call leaves the factory as it was
C14_ListIsStatic ==
    /\ [](listed # <<>> =>
            /\ Networks([k \in 1..Len(listed) |-> [network |-> listed[k]]]) = DOMAIN enable
            /\ Len(listed) = Cardinality(DOMAIN services))
    /\ [][listed' # listed => UNCHANGED <<enable, factoryVars>>]_vars

C14_Witness ==
    /\ listed # <<>>
    /\ \E n \in NetworkType : ~enable[n]
    /\ \E n \in NetworkType : services[n] # 0
    /\ \E c \in Clients : lastRet[c].instance = -1

\* C15: on every adapter, getTransactionStatus of an identifier the chain does not know
\* returns a receipt with status 'failed' and raises nothing, never 'pending' or
\* 'confirmed'
C15_UnknownIdIsFailed ==
    (last.op = "getTransactionStatus" /\ SubjectId \in initOk /\ last.chain = "unknown")
        => (last.ret.ok /\ last.ret.value.status = "failed")

\* the rejection of a sendTransaction request that submitted nothing
RejectedUnsent(ret, messages) ==
    /\ ~ret.ok
    /\ ret.error.message \in messages
    /\ ret.rpc = <<>>

\* C16: on every adapter, sendTransaction fails with the wallet-not-initialized error
\* when the adapter holds no signing key and with an invalid-address error when the
\* recipient, or a supplied sender, is rejected by validateAddress, and in these cases
\* nothing is built, signed or sent
C16_SendGuards ==
    last.op = "sendTransaction" =>
        /\ ~HasWallet(SubjectId, env)
              => RejectedUnsent(last.ret, {"Wallet not initialized"})
        /\ (/\ HasWallet(SubjectId, env)
            /\ \/ ~validateAddress(subject, SubjectId, last.request.to)
               \/ /\ last.request.hasFrom
                  /\ ~validateAddress(subject, SubjectId, last.request.from))
              => RejectedUnsent(last.ret, {"Invalid recipient address",
                                           "Invalid sender address"})

\* C17: on every adapter, getWalletInfo of an address validateAddress rejects fails in
\* getWalletInfo itself, before any network call, with the error getBalance raises
\* for that address
C17_WalletInfoRejectsLikeBalance ==
    (last.op = "getWalletInfo" /\ ~validateAddress(subject, SubjectId, last.address)) =>
        /\ ~last.ret.ok
        /\ last.ret.rpc = <<>>
        /\ last.ret.error.contexts = <<"getWalletInfo">>
        /\ \A r \in Service_getBalance(subject, SubjectId, last.address) :
              ~r.ok /\ r.rpc = <<>> /\ r.error.message = last.ret.error.message

C17_Witness ==
    /\ last.op = "getWalletInfo"
    /\ subject = "trc20"
    /\ SubjectId \in initOk
    /\ last.address = {}
    /\ ~last.ret.ok

\* C18: two createWallet calls on one adapter with the same mnemonic and the same
\* derivation index and path both succeed and return the same address, publicKey and
\* privateKey, whatever was called in between
C18_SameMnemonicSameWallet ==
    (/\ Len(wallets) = 2
     /\ SubjectId \in initOk
     /\ wallets[1].options = wallets[2].options
     /\ wallets[1].options.mnemonic # 0)
        => /\ wallets[1].ret.ok
           /\ wallets[2].ret.ok
           /\ wallets[1].ret.value.address = wallets[2].ret.value.address
           /\ wallets[1].ret.value.publicKey = wallets[2].ret.value.publicKey
           /\ wallets[1].ret.value.privateKey = wallets[2].ret.value.privateKey

\* C19: createWallet called without a mnemonic in its options derives the wallet from
\* the entropy generated in that call: two such calls that draw different entropy
\* return different addresses
C19_NoMnemonicFreshEntropy ==
    (/\ Len(wallets) = 2
     /\ wallets[1].options.mnemonic = 0
     /\ wallets[2].options.mnemonic = 0
     /\ wallets[1].entropy # wallets[2].entropy
     /\ wallets[1].ret.ok
     /\ wallets[2].ret.ok)
        => wallets[1].ret.value.address.seed # wallets[2].ret.value.address.seed

\* the adapter of the answered request does not accept the address
Rejects(a) == ~validateAddress(response.network, response.instance, a)

\* the answered request got an adapter and carries an address the adapter rejects
CarriesRejected ==
    /\ response.instance # -1
    /\ \/ response.request.hasTo /\ Rejects(response.request.to)
       \/ response.request.hasFrom /\ Rejects(response.request.from)

\* C20 as stated: in every single-network handler a failure of createService or of an
\* adapter operation is answered 5xx, an address the adapter's validateAddress rejects
\* is answered 4xx with no further adapter operation, and 4xx is answered for nothing
\* else
C20_EveryHandlerMapsErrors ==
    response.client # 0 =>
        /\ response.failed => response.status \in 500..599
        /\ CarriesRejected => (response.status \in 400..499 /\ response.calls = <<>>)
        /\ response.status \in 400..499 => CarriesRejected

\* the handlers that check an address before they call the adapter
Validating == {"getBalance", "getWalletInfo", "sendTransaction", "estimateGas"}

\* C20, amended: a failure of createService or of an awaited adapter operation is
\* answered 500; the balance, wallet-info, send and gas-estimate handlers answer 400,
\* calling the adapter no further, when validateAddress rejects the address or recipient,
\* and send also when it rejects a supplied sender; the address-validation handler
\* answers 200 whatever the verdict; 4xx is answered for these rejections only
C20_HandlersMapErrors ==
    response.client # 0 =>
        /\ response.failed => response.status = 500
        /\ (/\ response.instance # -1
            /\ response.handler \in Validating
            /\ Rejects(response.request.to))
              => (response.status = 400 /\ response.calls = <<>>)
        /\ (/\ response.instance # -1
            /\ response.handler = "sendTransaction"
            /\ response.request.hasFrom
            /\ Rejects(response.request.from))
              => (response.status = 400 /\ response.calls = <<>>)
        /\ (response.instance # -1 /\ response.handler = "validateAddress")
              => (response.status = 200 /\ response.calls = <<>>)
        /\ response.status \in 400..499
              => /\ response.instance # -1
                 /\ response.handler \in Validating
                 /\ \/ Rejects(response.request.to)
                    \/ /\ response.handler = "sendTransaction"
                       /\ response.request.hasFrom
                       /\ Rejects(response.request.from)

C20_Witness ==
    /\ response.client # 0
    /\ response.handler = "sendTransaction"
    /\ response.instance \in initOk
    /\ response.status = 400
    /\ ~Rejects(response.request.to)
    /\ response.request.hasFrom
    /\ Rejects(response.request.from)

\* C21: whatever subset of the networks fails to initialize during the warm-up, all of
\* them included, startServer never calls process.exit(1) and reaches app.listen
C21_StartupSurvivesFailures ==
    /\ [](server # "exited")
    /\ <>(server = "listening")

C21_Witness ==
    /\ server = "listening"
    /\ \A n \in NetworkType : enable[n] /\ initCount[n] = 1
    /\ initOk = {}
    /\ services = [n \in NetworkType |-> 0]

\* C22: while createService(a) is suspended in initialize(), a createService(b) call
\* for another network b can start (as long as an adapter object is left to construct),
\* and one that is in its own initialize() can complete, without waiting for a
C22_DifferentNetworksInParallel ==
    \A c, d \in Clients, b \in NetworkType :
        (pc[c] = "initialize" /\ net[c] # b) =>
            /\ (Idle(d) /\ (services[b] # 0 \/ nextId < MaxInstances))
                  => ENABLED CallCreateService(d, b)
            /\ (pc[d] = "initialize" /\ net[d] = b) => ENABLED InitializeOk(d)

\* b was constructed after a's initialize() began and is cached while a still waits
C22_Witness ==
    \E c, d \in Clients :
        /\ pc[c] = "initialize"
        /\ Idle(d)
        /\ lastRet[d].network # net[c]
        /\ lastRet[d].instance > inst[c]
        /\ lastRet[d].instance \in initOk
        /\ services[lastRet[d].network] = lastRet[d].instance

\* the asynchronous operations of the adapter contract
ContractOperations ==
    {"getBalance", "getWalletInfo", "sendTransaction", "getTransactionStatus",
     "getLatestBlock", "estimateGas"}

\* C23: on the uninitialized instance createService returns for a network with
\* enable == false, every asynchronous contract operation ends in an error
C23_UninitializedFailsFast ==
    (last.op \in ContractOperations /\ SubjectId \notin initOk) => ~last.ret.ok

\* the latest step sent the response of the networks-listing endpoint
Listing == response.status # 0 /\ response.client = 0

\* C24: the networks-listing response has one entry per id of
\* getAvailableNetworks(), in that order; an entry is 'unavailable' exactly when
\* createService threw for its id and 'available' otherwise; availableCount <= count;
\* and the response is never an error response, whichever networks failed
C24_ListingReportsEachNetwork ==
    Listing =>
        /\ response.status = 200
        /\ Len(response.supportedNetworks) = Len(getAvailableNetworks)
        /\ \A k \in 1..Len(getAvailableNetworks) :
              /\ response.supportedNetworks[k].type = getAvailableNetworks[k]
              /\ response.supportedNetworks[k].status \in {"available", "unavailable"}
              /\ response.supportedNetworks[k].status = "unavailable"
                    <=> response.calls[k] = -1
        /\ response.count = Len(getAvailableNetworks)
        /\ response.availableCount =
              Cardinality({k \in 1..Len(getAvailableNetworks) : response.calls[k] # -1})
        /\ response.availableCount <= response.count

\* a listing that reports a failed network next to a disabled one that is available
C24_Witness ==
    /\ Listing
    /\ \E j, k \in DOMAIN response.supportedNetworks :
          /\ response.supportedNetworks[j].status = "unavailable"
          /\ response.supportedNetworks[k].status = "available"
          /\ ~enable[response.supportedNetworks[k].type]

\* the callbacks of client c's fan-out that still await getWalletInfo
PendingCalls(c) == {k \in 1..Len(balances[c]) : balances[c][k].status = "pending"}

\* C25: the step that starts the fan-out starts the callback of every adapter, so
\* every adapter that accepts the address has its getWalletInfo in flight before the
\* handler waits; while calls are pending each of them can settle whatever the
\* others do, and the handler does not answer; the partitions and totalBalance are
\* built from an array in which every call has settled
C25_FanOutIsConcurrent ==
    /\ [](\A c \in Clients :
            pc[c] = "allSettled" =>
               /\ Len(balances[c]) = Len(acc[c])
               /\ \A k \in PendingCalls(c) : ENABLED Settle(c, k)
               /\ PendingCalls(c) # {} => ~ENABLED Respond(c))
    /\ [](response.client # 0 =>
            \A k \in 1..Len(response.settled) : response.settled[k].status # "pending")
    /\ [][\A c \in Clients :
            (pc[c] = "loop" /\ pc'[c] = "allSettled") =>
               /\ Len(balances'[c]) = Len(acc[c])
               /\ \A k \in 1..Len(acc[c]) :
                     IF validateAddress(acc[c][k].network, acc[c][k].id, addr'[c])
                     THEN balances'[c][k].status = "pending"
                     ELSE balances'[c][k].status = "fulfilled"]_vars

\* a later adapter's call has settled while an earlier one is still pending
C25_Witness ==
    \E c \in Clients :
        /\ pc[c] = "allSettled"
        /\ \E j, k \in 1..Len(balances[c]) :
              /\ j < k
              /\ balances[c][j].status = "pending"
              /\ outcome[c][k] = "ok"

\* C26: provided every initialize() and every getWalletInfo that was started settles,
\* every getMultiNetworkBalance request is answered; the step that answers ends the
\* handler, so a request is answered once, and it is taken only when no per-adapter
\* call of the request is pending any more
C26_EveryRequestIsAnswered ==
    /\ \A c \in Clients : (op[c] = "getMultiNetworkBalance") ~> (response.client = c)
    /\ [][\A c \in Clients :
            response'.client = c =>
               /\ op[c] = "getMultiNetworkBalance"
               /\ op'[c] = "none"
               /\ pc[c] = "allSettled"
               /\ PendingCalls(c) = {}
               /\ response'.status \in {200, 500}]_vars

\* a request is answered after a getWalletInfo call of it threw
C26_Witness ==
    /\ response.client # 0
    /\ \E k \in 1..Len(response.outcome) : response.outcome[k] = "throw"
    /\ \E k \in 1..Len(response.outcome) : response.outcome[k] = "ok"

\* C27: the cache starts empty; every entry is an adapter of a network with
\* enable == true whose initialize() completed; and a network that has an entry
\* has one in every later state, also after a failed initialize() for the same id
C27_CacheOnlyGrows ==
    /\ \A n \in NetworkType : services[n] = 0
    /\ [](\A n \in NetworkType :
            services[n] # 0 => enable[n] /\ services[n] \in initOk)
    /\ [][\A n \in NetworkType : services[n] # 0 => services'[n] # 0]_vars

\* a network keeps its entry although a later initialize() for it has failed
C27_Witness ==
    \E c \in Clients :
        /\ lastRet[c].instance = -1
        /\ services[lastRet[c].network] # 0
        /\ initCount[lastRet[c].network] > 1

\* network n was initialized by the warm-up, successfully, and by nothing since
Warm(n) == booted /\ services[n] # 0 /\ initCount[n] = 1

\* C28: when the warm-up ends, every enabled network whose initialize() succeeded in
\* it is cached and has had one initialize() call; from then on
\* no step invokes initialize() for such a network again or replaces its adapter, and
\* every createService call for it returns the adapter of the warm-up
C28_WarmNetworksInitializedOnce ==
    /\ [][(~booted /\ booted') =>
             \A k \in 1..Len(allResult.services) :
                 allResult.services[k].id \in initOk =>
                    /\ enable[allResult.services[k].network]
                    /\ services[allResult.services[k].network] = allResult.services[k].id
                    /\ initCount[allResult.services[k].network] = 1]_vars
    /\ [][\A n \in NetworkType :
             Warm(n) =>
                /\ initCount'[n] = 1
                /\ services'[n] = services[n]
                /\ \A c \in Clients :
                      (lastRet'[c] # lastRet[c] /\ lastRet'[c].network = n)
                          => lastRet'[c].instance = services[n]]_vars

\* after the warm-up a handler was given the warm adapter of one network, and another
\* adapter has been constructed for a network the warm-up did not cache
C28_Witness ==
    /\ server = "listening"
    /\ nextId > NumNetworks
    /\ \E n \in NetworkType, c \in Clients \ {StartupClient} :
          /\ Warm(n)
          /\ lastRet[c] = [network |-> n, instance |-> services[n]]

SuccessFields == {"network", "networkName", "address", "balance", "nativeToken", "status"}

FailureFields == {"network", "networkName", "status", "error"}

\* C29: every entry of the report has one of the two shapes: an entry of networks
\* carries network, networkName, address, balance, nativeToken and status 'success';
\* an entry of failedNetworks carries network, networkName, an error text and status
\* 'invalid_address' or 'error'; none has status 'rejected' or lacks the network id
C29_TwoEntryShapes ==
    response.client # 0 =>
        /\ \A k \in 1..Len(response.body.networks) :
              LET e == response.body.networks[k] IN
              /\ DOMAIN e = SuccessFields
              /\ e.status = "success"
              /\ e.network \in NetworkType
        /\ \A k \in 1..Len(response.body.failedNetworks) :
              LET e == response.body.failedNetworks[k] IN
              /\ DOMAIN e = FailureFields
              /\ e.status \in {"invalid_address", "error"}
              /\ e.network \in NetworkType

\* a report with an entry for an adapter that threw next to one for an adapter that
\* rejected the address
C29_Witness ==
    /\ response.client # 0
    /\ \E j, k \in 1..Len(response.body.failedNetworks) :
          /\ response.body.failedNetworks[j].status = "error"
          /\ response.body.failedNetworks[k].status = "invalid_address"

\* the latest step was the router taking a request
Routed == "by" \in DOMAIN response

\* the request the router took has a :network that is no network id, or a body its
\* route validates and the schema rejects
InvalidInput ==
    \/ response.network \notin NetworkType
    \/ /\ response.handler \in {"sendTransaction", "estimateGas"}
       /\ ~(response.body.hasFrom /\ response.body.hasTo /\ response.body.amount > 0)

\* C30: a request with an unknown :network, or with a body that fails the schema, is
\* answered 400 by the middleware, in a step that constructs nothing, returns from no
\* createService call and leaves the cache as it is; a controller method starts only
\* for a request that passed; and a createService call with an unknown network type
\* throws and leaves the cache as it is
C30_InvalidInputStopsAtMiddleware ==
    /\ []((Routed /\ InvalidInput) =>
            (response.status = 400
             /\ response.by \in {"validateNetwork", "validateTransactionRequest"}))
    /\ [][(Routed' /\ response'.status # 0) =>
             UNCHANGED <<factoryVars, callVars, lastRet, handling>>]_vars
    /\ [][\A c \in Clients :
            (handling'[c] /\ ~handling[c]) =>
               (Routed' /\ response'.client = c /\ response'.status = 0 /\ ~InvalidInput')]_vars
    /\ [][\A c \in Clients :
            (lastRet'[c] # lastRet[c] /\ lastRet'[c].network \notin NetworkType)
               => (lastRet'[c].instance = -1 /\ UNCHANGED factoryVars)]_vars

\* with an adapter cached, and after createService has thrown for an unknown network
\* type, a request for the cached network was stopped by the body schema
C30_Witness ==
    /\ Routed
    /\ response.status = 400
    /\ response.by = "validateTransactionRequest"
    /\ services[response.network] # 0
    /\ \E c \in Clients : lastRet[c] = [network |-> UnknownNetwork, instance |-> -1]

TypeOK ==
    /\ nextId \in 0..MaxInstances
    /\ services \in [NetworkType -> 0..nextId]
    /\ initOk \subseteq 1..nextId
====
